---- MODULE Spec2Model ----
(***************************************************************************)
(* Retrieval-augmented generation core of the chatbot (app/lib/rag.ts):    *)
(* addDocument (chunk, embed in passage mode, insert, with the category_id *)
(* fallback) and searchDocuments (semantic, keyword and question-variation *)
(* strategies, merged, deduplicated by content, ranked and joined).        *)
(*                                                                         *)
(* Strings are sequences of one-character strings, so that toLowerCase,    *)
(* the punctuation strip, split, includes and join are computed and not    *)
(* assumed.  Similarities are in hundredths (0.30 is 30, 0.5 is 50).       *)
(* The embedding provider and the Supabase store are external: each of     *)
(* their responses is a nondeterministic choice made when the awaiting     *)
(* step resumes.  Every action is the code that runs between two awaits.   *)
(***************************************************************************)
EXTENDS Integers, Sequences, FiniteSets, TLC

(***************************************************************************)
(* Characters and the string primitives the code uses.                     *)
(***************************************************************************)

LowerLetters ==
    << "a", "b", "c", "d", "e", "f", "g", "h", "i", "j", "k", "l", "m", "n", "o", "p", "q", "r",
       "s", "t", "u", "v", "w", "x", "y", "z" >>

UpperLetters ==
    << "A", "B", "C", "D", "E", "F", "G", "H", "I", "J", "K", "L", "M", "N", "O", "P", "Q", "R",
       "S", "T", "U", "V", "W", "X", "Y", "Z" >>

Digits ==
    { "0", "1", "2", "3", "4", "5", "6", "7", "8", "9" }

\* \w of the regular expression: letters, digits and the underscore
IsWordChar(c) ==
    \/ \E i \in 1..26 : c = LowerLetters[i] \/ c = UpperLetters[i]
    \/ c \in Digits
    \/ c = "_"

\* \s of the regular expression
IsSpace(c) ==
    c \in { " ", "\n", "\t" }

toLowerCaseChar(c) ==
    IF \E i \in 1..26 : c = UpperLetters[i]
    THEN LowerLetters[CHOOSE i \in 1..26 : c = UpperLetters[i]]
    ELSE c

\* String.prototype.toLowerCase
RECURSIVE toLowerCase(_)
toLowerCase(s) ==
    IF s = << >> THEN << >>
    ELSE << toLowerCaseChar(Head(s)) >> \o toLowerCase(Tail(s))

\* String.prototype.includes
includes(s, sub) ==
    \E i \in 0..(Len(s) - Len(sub)) : SubSeq(s, i + 1, i + Len(sub)) = sub

\* s.replace(/[^\w\s]/g, '')
stripPunctuation(s) ==
    SelectSeq(s, LAMBDA c : IsWordChar(c) \/ IsSpace(c))

\* s.split(/\s+/): a run of whitespace is one separator; a leading or a
\* trailing run leaves an empty first or last piece, and '' splits to ['']
RECURSIVE splitFrom(_, _, _)
splitFrom(s, i, cur) ==
    IF i > Len(s) THEN << cur >>
    ELSE IF IsSpace(s[i])
         THEN IF i > 1 /\ IsSpace(s[i - 1])
              THEN splitFrom(s, i + 1, cur)
              ELSE << cur >> \o splitFrom(s, i + 1, << >>)
         ELSE splitFrom(s, i + 1, Append(cur, s[i]))

splitWhitespace(s) ==
    splitFrom(s, 1, << >>)

\* [...new Set(words)]: the first occurrence of each word, in order
RECURSIVE uniqueInOrder(_)
uniqueInOrder(ws) ==
    IF ws = << >> THEN << >>
    ELSE LET front == uniqueInOrder(SubSeq(ws, 1, Len(ws) - 1))
             last  == ws[Len(ws)]
         IN  IF \E i \in 1..Len(front) : front[i] = last
             THEN front
             ELSE Append(front, last)

\* Array.prototype.slice(0, n), a negative n counting from the end
slice0(xs, n) ==
    LET stop == IF n < 0 THEN Len(xs) + n ELSE n
        last == IF stop > Len(xs) THEN Len(xs) ELSE stop
    IN  IF last <= 0 THEN << >> ELSE SubSeq(xs, 1, last)

\* Array.prototype.join(sep)
RECURSIVE join(_, _)
join(xs, sep) ==
    IF xs = << >> THEN << >>
    ELSE IF Len(xs) = 1 THEN xs[1]
    ELSE xs[1] \o sep \o join(Tail(xs), sep)

(***************************************************************************)
(* extractKeyTerms                                                         *)
(***************************************************************************)

stopWords ==
    { <<"t","h","e">>, <<"a">>, <<"a","n">>, <<"i","s">>, <<"a","r","e">>, <<"w","a","s">>,
      <<"w","e","r","e">>, <<"b","e">>, <<"b","e","e","n">>, <<"b","e","i","n","g">>,
      <<"h","a","v","e">>, <<"h","a","s">>, <<"h","a","d">>, <<"d","o">>, <<"d","o","e","s">>,
      <<"d","i","d">>, <<"w","i","l","l">>, <<"w","o","u","l","d">>, <<"c","o","u","l","d">>,
      <<"s","h","o","u","l","d">>, <<"m","a","y">>, <<"m","i","g","h","t">>, <<"m","u","s","t">>,
      <<"s","h","a","l","l">>, <<"c","a","n">>, <<"n","e","e","d">>, <<"d","a","r","e">>,
      <<"o","u","g","h","t">>, <<"u","s","e","d">>, <<"w","h","a","t">>, <<"w","h","i","c","h">>,
      <<"w","h","o">>, <<"w","h","o","m">>, <<"t","h","i","s">>, <<"t","h","a","t">>,
      <<"t","h","e","s","e">>, <<"t","h","o","s","e">>, <<"a","m">>, <<"y","o","u","r">>,
      <<"y","o","u">>, <<"h","o","w">>, <<"m","u","c","h">>, <<"m","a","n","y">>, <<"p","o">>,
      <<"b","a">>, <<"n","a">>, <<"n","g">>, <<"s","a">>, <<"a","n","g">>, <<"y","u","n","g">>,
      <<"m","o">>, <<"k","o">>, <<"n","y","o">>, <<"n","i","l","a">>, <<"k","a">>,
      <<"a","k","o">>, <<"s","i","y","a">>, <<"k","a","m","i">>, <<"t","a","y","o">>,
      <<"s","i","l","a">>, <<"m","a","g","k","a","n","o">>, <<"a","n","o">>,
      <<"p","a","a","n","o">>, <<"s","a","a","n">>, <<"k","a","i","l","a","n">>,
      <<"b","a","k","i","t">>, <<"i","l","a","n">> }


maxKeyTerms ==
    5

\* a faulty variant of extractKeyTerms: the cut to 5 is made before the
\* duplicates are removed
extractKeyTermsCutFirst(q) ==
    LET words == SelectSeq(splitWhitespace(stripPunctuation(toLowerCase(q))),
                           LAMBDA word : Len(word) > 2 /\ word \notin stopWords)
    IN  uniqueInOrder(slice0(words, maxKeyTerms))

extractKeyTerms(q) ==
    LET words == SelectSeq(splitWhitespace(stripPunctuation(toLowerCase(q))),
                           LAMBDA word : Len(word) > 2 /\ word \notin stopWords)
    IN  slice0(uniqueInOrder(words), maxKeyTerms)

(***************************************************************************)
(* generateQuestionVariations                                              *)
(***************************************************************************)

priceTriggers ==
    { <<"p","r","i","c","e">>, <<"c","o","s","t">>, <<"m","a","g","k","a","n","o">>,
      <<"p","r","e","s","y","o">> }

priceVariations ==
    << <<"W","h","a","t"," ","i","s"," ","t","h","e"," ","p","r","i","c","e","?">>,
       <<"H","o","w"," ","m","u","c","h"," ","d","o","e","s"," ","i","t"," ","c","o","s","t","?">>,
       <<"M","a","g","k","a","n","o","?">> >>

productTriggers ==
    { <<"p","r","o","d","u","c","t">>, <<"p","r","o","d","u","k","t","o">>, <<"i","t","e","m">> }

productVariations ==
    << <<"W","h","a","t"," ","p","r","o","d","u","c","t","s"," ","d","o"," ","y","o","u"," ","h","a","v","e","?">>,
       <<"T","e","l","l"," ","m","e"," ","a","b","o","u","t"," ","y","o","u","r"," ","p","r","o","d","u","c","t","s">> >>

deliveryTriggers ==
    { <<"d","e","l","i","v","e","r">>, <<"s","h","i","p","p","i","n","g">>,
      <<"p","a","d","a","l","a">> }

deliveryVariations ==
    << <<"D","o"," ","y","o","u"," ","d","e","l","i","v","e","r","?">>,
       <<"H","o","w"," ","m","u","c","h"," ","i","s"," ","s","h","i","p","p","i","n","g","?">>,
       <<"N","a","g","d","e","d","e","l","i","v","e","r"," ","b","a"," ","k","a","y","o","?">> >>

paymentTriggers ==
    { <<"p","a","y">>, <<"b","a","y","a","d">>, <<"g","c","a","s","h">>, <<"b","a","n","k">> }

paymentVariations ==
    << <<"W","h","a","t"," ","p","a","y","m","e","n","t"," ","m","e","t","h","o","d","s"," ","d","o"," ","y","o","u"," ","a","c","c","e","p","t","?">>,
       <<"H","o","w"," ","c","a","n"," ","I"," ","p","a","y","?">> >>


matchesAny(lowerQuery, triggers) ==
    \E t \in triggers : includes(lowerQuery, t)

\* a faulty variant of generateQuestionVariations: the triggers are looked for
\* in the query as typed, not in its lower-cased form
generateQuestionVariationsAsTyped(q) ==
    (IF matchesAny(q, priceTriggers) THEN priceVariations ELSE << >>)
    \o (IF matchesAny(q, productTriggers) THEN productVariations ELSE << >>)
    \o (IF matchesAny(q, deliveryTriggers) THEN deliveryVariations ELSE << >>)
    \o (IF matchesAny(q, paymentTriggers) THEN paymentVariations ELSE << >>)

generateQuestionVariations(q) ==
    LET lowerQuery == toLowerCase(q)
    IN  (IF matchesAny(lowerQuery, priceTriggers) THEN priceVariations ELSE << >>)
        \o (IF matchesAny(lowerQuery, productTriggers) THEN productVariations ELSE << >>)
        \o (IF matchesAny(lowerQuery, deliveryTriggers) THEN deliveryVariations ELSE << >>)
        \o (IF matchesAny(lowerQuery, paymentTriggers) THEN paymentVariations ELSE << >>)

(***************************************************************************)
(* Bounds of the model and the inputs the calls are drawn from.            *)
(***************************************************************************)
\* top-level calls (addDocument, searchDocuments) made one after another
MaxCalls ==
    1

\* faulty responses of the provider and the store within one call
MaxFaults ==
    2

\* nearest-neighbour hits the store returns to one searchDocuments call, the
\* semantic search and the searches of the variations together
MaxRaw ==
    2

chunkA ==
    <<"s","h","i","p","p","i","n","g"," ","5","0">>

chunkB ==
    <<"g","c","a","s","h">>

paragraphBreak ==
    << "\n", "\n" >>

\* documents handed to addDocument: empty, one chunk, two chunks, the same chunk twice
Documents ==
    { << >>, chunkA, chunkA \o paragraphBreak \o chunkB, chunkB \o paragraphBreak \o chunkB }

\* metadata handed to addDocument: with and without a categoryId
Metadatas ==
    { [categoryId |-> << >>], [categoryId |-> << "c1" >>] }

\* queries handed to searchDocuments: no key term and no topic; a topic but no
\* key term (magkano is a stop word); a key term but no topic; key terms and topics
Queries ==
    { <<"h","i">>,
      <<"m","a","g","k","a","n","o">>,
      <<"h","e","l","l","o">>,
      <<"G","C","a","s","h"," ","s","h","i","p","p","i","n","g","?">> }

Limits ==
    { -1, 0, 1, 2 }

\* the table before the first call: empty, or holding the rows earlier calls
\* of addDocument left there (chunkB was added twice)
storedRow(id, text, categoryId) ==
    [id |-> id, content |-> text,
     metadata |-> [categoryId |-> categoryId, loc |-> 1],
     embedding |-> [undefined |-> FALSE, text |-> text, mode |-> "passage"],
     category_id |-> categoryId]

Tables ==
    { << >>,
      << storedRow(1, chunkA, << "c1" >>), storedRow(2, chunkB, << >>),
         storedRow(3, chunkB, << >>) >> }

(***************************************************************************)
(* getEmbedding (lines 7-31) against the embedding provider.               *)
(***************************************************************************)
EMBEDDING_MODEL ==
    "nvidia/nv-embedqa-e5-v5"

\* what the provider can answer to one request: a vector; a non-2xx status; a
\* 2xx body without data[0]; a 2xx body whose data[0] has no embedding; no
\* answer at all (fetch rejects)
ProviderResponses ==
    { [ok |-> TRUE,  status |-> 200, body |-> "embedding"],
      [ok |-> FALSE, status |-> 500, body |-> "error text"],
      [ok |-> TRUE,  status |-> 200, body |-> "no data"],
      [ok |-> TRUE,  status |-> 200, body |-> "no embedding"],
      [ok |-> FALSE, status |-> 0,   body |-> "fetch rejected"] }

ProviderFault(response) ==
    response.body # "embedding"

\* the body of the POST request
embeddingRequest(text, inputType) ==
    [model |-> EMBEDDING_MODEL, input |-> << text >>, input_type |-> inputType]

\* the vector the provider computes for a request: a function of the input and
\* of the input_type, which may differ between the two modes for the same text
providerVector(request) ==
    [undefined |-> FALSE, text |-> request.input[1], mode |-> request.input_type]

undefined ==
    [undefined |-> TRUE, text |-> << >>, mode |-> "none"]

\* the errors getEmbedding can end with: none; the TypeError of fetch or of
\* reading data.data[0].embedding, which knows nothing of the response; the
\* Error of line 26, whose message holds response.status and the response text
noThrow ==
    [name |-> "none", status |-> << >>, text |-> << >>]

typeError ==
    [name |-> "TypeError", status |-> << >>, text |-> << >>]

embeddingApiError(response) ==
    [name |-> "Error", status |-> << response.status >>, text |-> << response.body >>]

\* the outcome of one getEmbedding call: a returned value or a thrown error
getEmbedding(text, inputType, response) ==
    LET request == embeddingRequest(text, inputType)
    IN  IF response.body = "fetch rejected"
        THEN [threw |-> TRUE, value |-> undefined, error |-> typeError]
        ELSE IF ~response.ok
        THEN [threw |-> TRUE, value |-> undefined, error |-> embeddingApiError(response)]
        ELSE IF response.body = "no data"
        THEN [threw |-> TRUE, value |-> undefined, error |-> typeError]
        ELSE IF response.body = "no embedding"
        THEN [threw |-> FALSE, value |-> undefined, error |-> noThrow]
        ELSE [threw |-> FALSE, value |-> providerVector(request), error |-> noThrow]

(***************************************************************************)
(* The Supabase store: what it can answer to the calls the code makes.     *)
(***************************************************************************)
noError ==
    [null |-> TRUE, message |-> << >>]

schemaMessage ==
    <<"C","o","u","l","d"," ","n","o","t"," ","f","i","n","d"," ","t","h","e"," ","'","c","a","t","e","g","o","r","y","_","i","d","'"," ","c","o","l","u","m","n">>

foreignKeyMessage ==
    <<"v","i","o","l","a","t","e","s"," ","f","o","r","e","i","g","n"," ","k","e","y"," ","c","o","n","s","t","r","a","i","n","t"," ","\"","d","o","c","u","m","e","n","t","s","_","c","a","t","e","g","o","r","y","_","i","d","_","f","k","e","y","\"">>

timeoutMessage ==
    <<"c","o","n","n","e","c","t","i","o","n"," ","t","i","m","e","d"," ","o","u","t">>

\* the errors an insert can return: the category_id column is missing; the
\* category_id value breaks a constraint; a failure unrelated to category_id;
\* an error object that has no message
InsertErrors ==
    { [null |-> FALSE, message |-> << schemaMessage >>],
      [null |-> FALSE, message |-> << foreignKeyMessage >>],
      [null |-> FALSE, message |-> << timeoutMessage >>],
      [null |-> FALSE, message |-> << >>] }

InsertResponses ==
    { noError } \union InsertErrors

(***************************************************************************)
(* The chunker (RecursiveCharacterTextSplitter.createDocuments) is a       *)
(* library: it is modelled by its contract, a finite sequence of non-empty *)
(* chunks in document order, none for the empty document.  The model cuts  *)
(* at blank lines, the splitter's first separator, as it does for          *)
(* paragraphs that each fill a chunk.                                      *)
(***************************************************************************)
RECURSIVE splitParagraphs(_, _, _)
splitParagraphs(s, i, cur) ==
    IF i > Len(s) THEN << cur >>
    ELSE IF i < Len(s) /\ s[i] = "\n" /\ s[i + 1] = "\n"
         THEN << cur >> \o splitParagraphs(s, i + 2, << >>)
         ELSE splitParagraphs(s, i + 1, Append(cur, s[i]))

createDocuments(text) ==
    LET parts == SelectSeq(splitParagraphs(text, 1, << >>), LAMBDA part : part # << >>)
    IN  SubSeq([i \in 1..Len(parts) |->
                    [pageContent |-> parts[i], metadata |-> [loc |-> i]]], 1, Len(parts))

(***************************************************************************)
(* State.                                                                  *)
(***************************************************************************)
VARIABLES
    documents,        \* the rows of the store's documents table, in insertion order
    calls,            \* top-level calls made so far
    faults,           \* faulty responses received by the current call
    embedCalls,       \* the getEmbedding calls of the current call, in order
    storeCalls,       \* the store calls of the current call, in order
    documentsBefore,  \* the table when the current call began
    aPc,              \* addDocument: "idle", "embed", "insert", "retry", "done"
    content,          \* addDocument: its first argument
    metadata,         \* addDocument: its second argument
    chunks,           \* addDocument: the chunks of the document
    ci,               \* addDocument: the position of the for-of loop in chunks
    insertData,       \* addDocument: the row being inserted
    error,            \* addDocument: the error of the last insert
    added,            \* addDocument: "pending", or the value returned, "true" or "false"
    sPc,              \* searchDocuments: "idle", "embed", "semantic", "keyword",
                      \*   "varEmbed", "varSearch", "done"
    query,            \* searchDocuments: its first argument
    limit,            \* searchDocuments: its second argument
    queryEmbedding,   \* searchDocuments: the embedding of the query
    semanticResults,  \* searchDocuments: data of the semantic search, possibly null
    keywordResults,   \* searchDocuments: the keyword hits
    qaResults,        \* searchDocuments: the variation hits
    vi,               \* searchDocuments: the position of the loop over the variations
    varEmbedding,     \* searchDocuments: the embedding of the current variation
    found,            \* searchDocuments: "pending", "returned" or "raised"
    result            \* searchDocuments: the string returned

(***************************************************************************)
(* State of the text functions run on their own: extractKeyTerms and       *)
(* generateQuestionVariations applied to a query that is typed piece by    *)
(* piece.                                                                  *)
(***************************************************************************)
VARIABLES
    typed,            \* the query typed so far
    pieces,           \* the number of pieces it was typed in
    keyTerms,         \* what extractKeyTerms returned for it
    variations,       \* what generateQuestionVariations returned for it
    applied           \* the functions applied to it since it last changed

textVars ==
    << typed, pieces, keyTerms, variations, applied >>

TextInit ==
    /\ typed = << >>
    /\ pieces = 0
    /\ keyTerms = << >>
    /\ variations = << >>
    /\ applied = { }

(***************************************************************************)
(* State of searches that run at the same time: each call of               *)
(* searchDocuments has its own locals (const and let of lines 99-190); the *)
(* module holds no variable that a call assigns.                           *)
(***************************************************************************)
VARIABLES
    running,          \* the locals of each call of searchDocuments
    broken            \* the texts the provider cannot embed

concVars ==
    << running, broken >>

(***************************************************************************)
(* State of the guest session functions (guest session management):        *)
(* the item of localStorage they use, and what the calls made so far did.  *)
(***************************************************************************)
VARIABLES
    window,           \* TRUE in a browser, FALSE where window is undefined
    localStorage,     \* the item stored under GUEST_SESSION_KEY, none or one
    lastCall,         \* the function called last
    returned,         \* what it returned
    storedBefore,     \* the item stored before that call
    created,          \* the ids getOrCreateGuestSessionId has created
    issued,           \* the ids it has returned since the last clearGuestSession
    cleared           \* clearGuestSession was called, getOrCreateGuestSessionId not since

guestVars ==
    << window, localStorage, lastCall, returned, storedBefore, created, issued, cleared >>

\* getItem returns null when no item is stored
nullItem ==
    << >>

\* a function has returned nothing yet
nothing ==
    [type |-> "nothing", value |-> << >>]

GuestIdle ==
    /\ localStorage = nullItem
    /\ lastCall = "none"
    /\ returned = nothing
    /\ storedBefore = nullItem
    /\ created = { }
    /\ issued = { }
    /\ cleared = FALSE

GuestInit ==
    /\ window = TRUE
    /\ GuestIdle

envVars ==
    << documents, calls, faults, embedCalls, storeCalls, documentsBefore >>

addVars ==
    << aPc, content, metadata, chunks, ci, insertData, error, added >>

searchVars ==
    << sPc, query, limit, queryEmbedding, semanticResults, keywordResults, qaResults,
       vi, varEmbedding, found, result >>

\* the state of the retrieval core
ragVars ==
    << envVars, addVars, searchVars >>

\* what the actions on one part of the state leave alone
besideRag ==
    << textVars, concVars, guestVars >>

besideText ==
    << ragVars, concVars, guestVars >>

besideConc ==
    << ragVars, textVars, guestVars >>

besideGuest ==
    << ragVars, textVars, concVars >>

vars ==
    << ragVars, besideRag >>

noRow ==
    [content |-> << >>, metadata |-> [categoryId |-> << >>, loc |-> 0],
     embedding |-> undefined, category_id |-> << >>]

nullData ==
    [null |-> TRUE, rows |-> << >>]

\* concurrent calls of searchDocuments
MaxSearches ==
    2

\* the locals of a call that has not begun
idleLocals ==
    [sPc |-> "idle", query |-> << >>, limit |-> 0, queryEmbedding |-> undefined,
     semanticResults |-> nullData, keywordResults |-> << >>, qaResults |-> << >>,
     vi |-> 0, varEmbedding |-> undefined, found |-> "pending", result |-> << >>]

ConcInit ==
    /\ running = [p \in 1..MaxSearches |-> idleLocals]
    /\ broken = { }

AddIdle ==
    /\ aPc' = "idle"
    /\ content' = << >>
    /\ metadata' = [categoryId |-> << >>]
    /\ chunks' = << >>
    /\ ci' = 0
    /\ insertData' = noRow
    /\ error' = noError
    /\ added' = "pending"

SearchIdle ==
    /\ sPc' = "idle"
    /\ query' = << >>
    /\ limit' = 0
    /\ queryEmbedding' = undefined
    /\ semanticResults' = nullData
    /\ keywordResults' = << >>
    /\ qaResults' = << >>
    /\ vi' = 0
    /\ varEmbedding' = undefined
    /\ found' = "pending"
    /\ result' = << >>

\* the retrieval core before the first call
RagInit ==
    /\ documents \in Tables
    /\ calls = 0
    /\ faults = 0
    /\ embedCalls = << >>
    /\ storeCalls = << >>
    /\ documentsBefore = documents
    /\ aPc = "idle"
    /\ content = << >>
    /\ metadata = [categoryId |-> << >>]
    /\ chunks = << >>
    /\ ci = 0
    /\ insertData = noRow
    /\ error = noError
    /\ added = "pending"
    /\ sPc = "idle"
    /\ query = << >>
    /\ limit = 0
    /\ queryEmbedding = undefined
    /\ semanticResults = nullData
    /\ keywordResults = << >>
    /\ qaResults = << >>
    /\ vi = 0
    /\ varEmbedding = undefined
    /\ found = "pending"
    /\ result = << >>

Init ==
    /\ RagInit
    /\ TextInit
    /\ ConcInit
    /\ GuestInit

\* no call is running: the caller may make the next one
CallerReady ==
    /\ aPc \in { "idle", "done" }
    /\ sPc \in { "idle", "done" }
    /\ calls < MaxCalls

\* a response may be faulty while the call has faults left
MayAnswer(faulty) ==
    faulty => faults < MaxFaults

CountFault(faulty) ==
    faults' = IF faulty THEN faults + 1 ELSE faults

(***************************************************************************)
(* addDocument (lines 34-88).                                              *)
(***************************************************************************)
\* a faulty variant of addDocumentInputType: chunks are embedded in query mode
addDocumentInputTypeQuery ==
    "query"

\* line 50: the mode addDocument embeds a chunk in
addDocumentInputType ==
    "passage"

\* lines 54-63: the row built for a chunk
buildInsertData(chunk, meta, embedding) ==
    [content     |-> chunk.pageContent,
     metadata    |-> [categoryId |-> meta.categoryId, loc |-> chunk.metadata.loc],
     embedding   |-> embedding,
     category_id |-> meta.categoryId]

\* line 68: error && error.message?.includes('category_id')
categoryIdText ==
    <<"c","a","t","e","g","o","r","y","_","i","d">>

shouldRetry(err) ==
    /\ ~err.null
    /\ err.message # << >>
    /\ includes(err.message[1], categoryIdText)

\* line 70: delete insertData.category_id
withoutCategoryId(row) ==
    [row EXCEPT !.category_id = << >>]

\* the table after an insert the store answered with err
insertInto(table, row, err) ==
    IF err.null
    THEN Append(table, [id |-> Len(table) + 1] @@ row)
    ELSE table

\* a faulty variant of AddCatch: the failed chunk is skipped and the loop goes on
AddCatchSkipsChunk ==
    /\ insertData' = noRow
    /\ UNCHANGED << content, metadata, chunks >>
    /\ IF ci = Len(chunks)
       THEN /\ added' = "false"
            /\ aPc' = "done"
            /\ ci' = ci
       ELSE /\ added' = added
            /\ aPc' = "embed"
            /\ ci' = ci + 1

\* lines 84-87: the catch block
AddCatch ==
    /\ added' = "false"
    /\ aPc' = "done"
    /\ insertData' = noRow
    /\ UNCHANGED << content, metadata, chunks, ci >>

\* a faulty variant of AddAfterInsert: the error is logged but not thrown
AddAfterInsertNoThrow(err) ==
    /\ error' = err
    /\ insertData' = noRow
    /\ UNCHANGED << content, metadata, chunks >>
    /\ IF ci = Len(chunks)
       THEN /\ added' = "true"
            /\ aPc' = "done"
            /\ ci' = ci
       ELSE /\ added' = added
            /\ aPc' = "embed"
            /\ ci' = ci + 1

\* lines 75-83: after the insert and its retry, throw on an error, else go on
\* to the next chunk, and return true after the last one
AddAfterInsert(err) ==
    /\ error' = err
    /\ IF ~err.null
       THEN AddCatch
       ELSE /\ insertData' = noRow
            /\ UNCHANGED << content, metadata, chunks >>
            /\ IF ci = Len(chunks)
               THEN /\ added' = "true"
                    /\ aPc' = "done"
                    /\ ci' = ci
               ELSE /\ added' = added
                    /\ aPc' = "embed"
                    /\ ci' = ci + 1

\* lines 34-49: the call, up to the first getEmbedding
AddDocument(text, meta) ==
    /\ CallerReady
    /\ calls' = calls + 1
    /\ faults' = 0
    /\ embedCalls' = << >>
    /\ storeCalls' = << >>
    /\ documentsBefore' = documents
    /\ UNCHANGED << documents, besideRag >>
    /\ SearchIdle
    /\ content' = text
    /\ metadata' = meta
    /\ chunks' = createDocuments(text)
    /\ insertData' = noRow
    /\ error' = noError
    /\ IF createDocuments(text) = << >>
       THEN /\ ci' = 0
            /\ added' = "true"
            /\ aPc' = "done"
       ELSE /\ ci' = 1
            /\ added' = "pending"
            /\ aPc' = "embed"

\* lines 50-65: getEmbedding answers, the row is built and the insert is sent
AddEmbed(response) ==
    /\ aPc = "embed"
    /\ MayAnswer(ProviderFault(response))
    /\ CountFault(ProviderFault(response))
    /\ LET chunk == chunks[ci]
           got   == getEmbedding(chunk.pageContent, addDocumentInputType, response)
       IN  /\ embedCalls' = Append(embedCalls,
                                   [text |-> chunk.pageContent,
                                    inputType |-> addDocumentInputType,
                                    threw |-> got.threw, chunk |-> ci,
                                    response |-> response, error |-> got.error])
           /\ IF got.threw
              THEN AddCatch /\ error' = error
              ELSE /\ insertData' = buildInsertData(chunk, metadata, got.value)
                   /\ aPc' = "insert"
                   /\ UNCHANGED << content, metadata, chunks, ci, error, added >>
    /\ UNCHANGED << documents, calls, storeCalls, documentsBefore, searchVars, besideRag >>

\* lines 65-73: the insert answers; a category_id error sends the retry
AddInsert(err) ==
    /\ aPc = "insert"
    /\ MayAnswer(~err.null)
    /\ CountFault(~err.null)
    /\ storeCalls' = Append(storeCalls,
                            [op |-> "insert", row |-> insertData, error |-> err,
                             chunk |-> ci, retry |-> FALSE])
    /\ documents' = insertInto(documents, insertData, err)
    /\ IF shouldRetry(err)
       THEN /\ insertData' = withoutCategoryId(insertData)
            /\ error' = err
            /\ aPc' = "retry"
            /\ UNCHANGED << content, metadata, chunks, ci, added >>
       ELSE AddAfterInsert(err)
    /\ UNCHANGED << calls, embedCalls, documentsBefore, searchVars, besideRag >>

\* lines 71-83: the retry answers
AddRetry(err) ==
    /\ aPc = "retry"
    /\ MayAnswer(~err.null)
    /\ CountFault(~err.null)
    /\ storeCalls' = Append(storeCalls,
                            [op |-> "insert", row |-> insertData, error |-> err,
                             chunk |-> ci, retry |-> TRUE])
    /\ documents' = insertInto(documents, insertData, err)
    /\ AddAfterInsert(err)
    /\ UNCHANGED << calls, embedCalls, documentsBefore, searchVars, besideRag >>

(***************************************************************************)
(* The store's answers to the two searches searchDocuments makes.          *)
(***************************************************************************)
\* the similarities, in hundredths, a nearest-neighbour hit can carry
Similarities ==
    { 20, 50, 90 }

\* a hit may also come without a similarity
absent ==
    << >>

\* the sequences of at most k hits on distinct rows, each hit with one of sims
RECURSIVE hitLists(_, _, _)
hitLists(rows, sims, k) ==
    IF k <= 0 \/ rows = { } THEN { << >> }
    ELSE { << >> } \union
         UNION { { << [id |-> row.id, content |-> row.content, similarity |-> sim] >> \o rest :
                     sim \in sims, rest \in hitLists(rows \ { row }, sims, k - 1) } :
                 row \in rows }

tableRows(table) ==
    { [id |-> table[i].id, content |-> table[i].content] : i \in 1..Len(table) }

\* rpc('match_documents', ...): an error with null data, or at most match_count
\* hits, none with a similarity the threshold excludes; a negative match_count
\* is an error (LIMIT must not be negative).  room bounds the hits explored.
matchDocuments(table, match_threshold, match_count, room) ==
    LET sims == { absent } \union { << s >> : s \in { t \in Similarities : t > match_threshold } }
        cap  == IF match_count < room THEN match_count ELSE room
    IN  { [error |-> TRUE, data |-> nullData] } \union
        IF match_count < 0 THEN { }
        ELSE { [error |-> FALSE, data |-> [null |-> FALSE, rows |-> hits]] :
                 hits \in hitLists(tableRows(table), sims, cap) }

\* content.ilike.%term%: a case-insensitive "contains"
ilike(text, term) ==
    includes(toLowerCase(text), toLowerCase(term))

\* the sequences of exactly k distinct rows
RECURSIVE rowLists(_, _)
rowLists(rows, k) ==
    IF k <= 0 \/ rows = { } THEN { << >> }
    ELSE UNION { { << row >> \o rest : rest \in rowLists(rows \ { row }, k - 1) } :
                 row \in rows }

\* from('documents').select(...).or(ilike ...).limit(n): an error with null
\* data, or the rows matching any term, in any order, cut to n of them; a
\* negative n is an error
selectIlike(table, terms, n) ==
    LET matching == { row \in tableRows(table) :
                        \E i \in 1..Len(terms) : ilike(row.content, terms[i]) }
        k        == IF n < Cardinality(matching) THEN n ELSE Cardinality(matching)
    IN  { [error |-> TRUE, data |-> nullData] } \union
        IF n < 0 THEN { }
        ELSE { [error |-> FALSE, data |-> [null |-> FALSE, rows |-> rows]] :
                 rows \in rowLists(matching, k) }

(***************************************************************************)
(* searchDocuments (lines 99-195): the merge, lines 158-190.               *)
(***************************************************************************)
\* a faulty variant of matchThreshold: the floor is lowered to 0.10
matchThresholdLowered ==
    2 * 5

\* lines 109 and 146: match_threshold
matchThreshold ==
    30

\* line 147: match_count of a variation search
variationMatchCount ==
    3

\* line 142: questionVariations.slice(0, 2)
maxVariations ==
    2

\* line 132: the similarity given to a keyword hit
keywordSimilarity ==
    50

\* lines 104 and 143: the mode searchDocuments embeds in
searchInputType ==
    "query"

blankLine ==
    << "\n", "\n" >>

\* { ...doc, matchType }
tagged(rows, matchType) ==
    SubSeq([i \in 1..Len(rows) |-> [matchType |-> matchType] @@ rows[i]], 1, Len(rows))

\* a faulty variant of keywordHits: a keyword row becomes a hit of similarity 1
keywordHitsTop(rows) ==
    SubSeq([i \in 1..Len(rows) |->
               [similarity |-> << 2 * keywordSimilarity >>, matchType |-> "keyword"] @@ rows[i]],
           1, Len(rows))

\* lines 130-134: a keyword row becomes a hit of similarity 0.5
keywordHits(rows) ==
    SubSeq([i \in 1..Len(rows) |->
               [similarity |-> << keywordSimilarity >>, matchType |-> "keyword"] @@ rows[i]],
           1, Len(rows))

\* lines 129-135: if (!kwError && kwResults) keywordResults = kwResults.map(...)
keywordOf(answer) ==
    IF ~answer.error /\ ~answer.data.null
    THEN keywordHits(answer.data.rows)
    ELSE << >>

\* a faulty variant of pushVariation: a failed variation search also throws
\* away the hits of the variations before it
pushVariationResets(qa, answer) ==
    IF ~answer.error /\ ~answer.data.null
    THEN qa \o tagged(answer.data.rows, "variation")
    ELSE << >>

\* lines 150-155: if (!varError && varResults) qaResults.push(...)
pushVariation(qa, answer) ==
    IF ~answer.error /\ ~answer.data.null
    THEN qa \o tagged(answer.data.rows, "variation")
    ELSE qa

\* (semanticResults || [])
orEmpty(data) ==
    IF data.null THEN << >> ELSE data.rows

\* lines 159-163
allResults(semantic, keyword, qa) ==
    tagged(orEmpty(semantic), "semantic") \o keyword \o qa

\* (doc.similarity || 0)
similarityOr0(doc) ==
    IF doc.similarity = absent THEN 0 ELSE doc.similarity[1]

\* a faulty variant of seenContent: the first hit of a content is kept whatever
\* the similarity of the later ones
RECURSIVE seenContentKeepsFirst(_, _)
seenContentKeepsFirst(docs, seen) ==
    IF docs = << >> THEN seen
    ELSE IF \E i \in 1..Len(seen) : seen[i].content = Head(docs).content
         THEN seenContentKeepsFirst(Tail(docs), seen)
         ELSE seenContentKeepsFirst(Tail(docs), Append(seen, Head(docs)))

\* a faulty variant of seenContent: nothing is deduplicated
seenContentKeepsAll(docs, seen) ==
    seen \o docs

\* lines 166-172: seenContent, a Map, as the sequence of its values in the
\* order their keys were first set; setting a key again keeps its place
RECURSIVE seenContent(_, _)
seenContent(docs, seen) ==
    IF docs = << >> THEN seen
    ELSE LET doc   == Head(docs)
             same == { i \in 1..Len(seen) : seen[i].content = doc.content }
         IN  IF same = { }
             THEN seenContent(Tail(docs), Append(seen, doc))
             ELSE LET i == CHOOSE j \in same : TRUE
                  IN  IF similarityOr0(doc) > similarityOr0(seen[i])
                      THEN seenContent(Tail(docs), [seen EXCEPT ![i] = doc])
                      ELSE seenContent(Tail(docs), seen)

\* a faulty variant of insertSorted: x goes before the elements it ties with
insertSortedBeforeTies(sorted, x) ==
    LET before == { i \in 1..Len(sorted) : similarityOr0(sorted[i]) <= similarityOr0(x) }
        at     == IF before = { } THEN Len(sorted) + 1
                  ELSE CHOOSE i \in before : \A j \in before : i <= j
    IN  SubSeq(sorted, 1, at - 1) \o << x >> \o SubSeq(sorted, at, Len(sorted))

\* line 176: sort((a, b) => (b.similarity || 0) - (a.similarity || 0)), a
\* stable sort: x goes after every element that does not rank below it
insertSorted(sorted, x) ==
    LET before == { i \in 1..Len(sorted) : similarityOr0(sorted[i]) < similarityOr0(x) }
        at     == IF before = { } THEN Len(sorted) + 1
                  ELSE CHOOSE i \in before : \A j \in before : i <= j
    IN  SubSeq(sorted, 1, at - 1) \o << x >> \o SubSeq(sorted, at, Len(sorted))

RECURSIVE sortBySimilarity(_)
sortBySimilarity(docs) ==
    IF docs = << >> THEN << >>
    ELSE insertSorted(sortBySimilarity(SubSeq(docs, 1, Len(docs) - 1)), docs[Len(docs)])

\* a faulty variant of uniqueResults: the cut to n is made before the sort
uniqueResultsCutFirst(semantic, keyword, qa, n) ==
    sortBySimilarity(slice0(seenContent(allResults(semantic, keyword, qa), << >>), n))

\* lines 175-177
uniqueResults(semantic, keyword, qa, n) ==
    slice0(sortBySimilarity(seenContent(allResults(semantic, keyword, qa), << >>)), n)

\* lines 185-190
joinContents(docs) ==
    IF Len(docs) = 0 THEN << >>
    ELSE join(SubSeq([i \in 1..Len(docs) |-> docs[i].content], 1, Len(docs)), blankLine)

(***************************************************************************)
(* searchDocuments (lines 99-195): the steps between its awaits.           *)
(***************************************************************************)
\* nearest-neighbour hits the running search has received so far
neighbourHits ==
    Len(orEmpty(semanticResults)) + Len(qaResults)

\* a faulty variant of questionVariations: every variation is embedded
questionVariationsAll(q) ==
    generateQuestionVariations(q)

\* line 142: the variations that are embedded
questionVariations(q) ==
    slice0(generateQuestionVariations(q), maxVariations)

\* a faulty variant of SearchCatch: the catch block throws the error again
SearchCatchRethrows ==
    /\ found' = "raised"
    /\ result' = << >>
    /\ sPc' = "done"

\* lines 191-194: the catch block
SearchCatch ==
    /\ found' = "returned"
    /\ result' = << >>
    /\ sPc' = "done"

\* lines 158-190: merge, deduplicate, rank, cut and join, and return
SearchFinish(semantic, keyword, qa) ==
    /\ found' = "returned"
    /\ result' = joinContents(uniqueResults(semantic, keyword, qa, limit))
    /\ sPc' = "done"

\* lines 142-156: the head of the loop over the variations, at position i
SearchVariations(semantic, keyword, qa, i) ==
    IF i > Len(questionVariations(query))
    THEN /\ SearchFinish(semantic, keyword, qa)
         /\ vi' = vi
    ELSE /\ sPc' = "varEmbed"
         /\ vi' = i
         /\ UNCHANGED << found, result >>

\* lines 99-104: the call, up to the first getEmbedding
SearchDocuments(q, n) ==
    /\ CallerReady
    /\ calls' = calls + 1
    /\ faults' = 0
    /\ embedCalls' = << >>
    /\ storeCalls' = << >>
    /\ documentsBefore' = documents
    /\ UNCHANGED << documents, besideRag >>
    /\ AddIdle
    /\ sPc' = "embed"
    /\ query' = q
    /\ limit' = n
    /\ queryEmbedding' = undefined
    /\ semanticResults' = nullData
    /\ keywordResults' = << >>
    /\ qaResults' = << >>
    /\ vi' = 0
    /\ varEmbedding' = undefined
    /\ found' = "pending"
    /\ result' = << >>

\* lines 104-111: getEmbedding answers and the semantic search is sent
SearchEmbed(response) ==
    /\ sPc = "embed"
    /\ MayAnswer(ProviderFault(response))
    /\ CountFault(ProviderFault(response))
    /\ LET got == getEmbedding(query, searchInputType, response)
       IN  /\ embedCalls' = Append(embedCalls,
                                   [text |-> query, inputType |-> searchInputType,
                                    threw |-> got.threw, chunk |-> 0,
                                    response |-> response, error |-> got.error])
           /\ IF got.threw
              THEN SearchCatch /\ queryEmbedding' = queryEmbedding
              ELSE /\ queryEmbedding' = got.value
                   /\ sPc' = "semantic"
                   /\ UNCHANGED << found, result >>
    /\ UNCHANGED << documents, calls, storeCalls, documentsBefore, addVars, besideRag >>
    /\ UNCHANGED << query, limit, semanticResults, keywordResults, qaResults, vi,
                    varEmbedding >>

\* lines 107-127: the semantic search answers; the keyword search is sent if
\* there is a key term, else the loop over the variations begins
SearchSemantic(answer) ==
    /\ sPc = "semantic"
    /\ MayAnswer(answer.error)
    /\ CountFault(answer.error)
    /\ storeCalls' = Append(storeCalls,
                            [op |-> "match_documents", query_embedding |-> queryEmbedding,
                             match_threshold |-> matchThreshold, match_count |-> limit,
                             error |-> answer.error, rows |-> answer.data.rows,
                             strategy |-> "semantic"])
    /\ semanticResults' = answer.data
    /\ IF Len(extractKeyTerms(query)) > 0
       THEN /\ sPc' = "keyword"
            /\ UNCHANGED << vi, found, result >>
       ELSE SearchVariations(answer.data, << >>, << >>, 1)
    /\ UNCHANGED << documents, calls, embedCalls, documentsBefore, addVars, besideRag >>
    /\ UNCHANGED << query, limit, queryEmbedding, keywordResults, qaResults, varEmbedding >>

\* lines 123-142: the keyword search answers
SearchKeyword(answer) ==
    /\ sPc = "keyword"
    /\ MayAnswer(answer.error)
    /\ CountFault(answer.error)
    /\ storeCalls' = Append(storeCalls,
                            [op |-> "ilike", terms |-> extractKeyTerms(query),
                             limit |-> limit, error |-> answer.error,
                             rows |-> answer.data.rows, strategy |-> "keyword"])
    /\ LET keyword == keywordOf(answer)
       IN  /\ keywordResults' = keyword
           /\ SearchVariations(semanticResults, keyword, << >>, 1)
    /\ UNCHANGED << documents, calls, embedCalls, documentsBefore, addVars, besideRag >>
    /\ UNCHANGED << query, limit, queryEmbedding, semanticResults, qaResults,
                    varEmbedding >>

\* lines 143-148: getEmbedding answers for a variation and its search is sent
SearchVarEmbed(response) ==
    /\ sPc = "varEmbed"
    /\ MayAnswer(ProviderFault(response))
    /\ CountFault(ProviderFault(response))
    /\ LET variation == questionVariations(query)[vi]
           got       == getEmbedding(variation, searchInputType, response)
       IN  /\ embedCalls' = Append(embedCalls,
                                   [text |-> variation, inputType |-> searchInputType,
                                    threw |-> got.threw, chunk |-> 0,
                                    response |-> response, error |-> got.error])
           /\ IF got.threw
              THEN SearchCatch /\ varEmbedding' = varEmbedding
              ELSE /\ varEmbedding' = got.value
                   /\ sPc' = "varSearch"
                   /\ UNCHANGED << found, result >>
    /\ UNCHANGED << documents, calls, storeCalls, documentsBefore, addVars, besideRag >>
    /\ UNCHANGED << query, limit, queryEmbedding, semanticResults, keywordResults,
                    qaResults, vi >>

\* lines 144-156: the search of a variation answers
SearchVarSearch(answer) ==
    /\ sPc = "varSearch"
    /\ MayAnswer(answer.error)
    /\ CountFault(answer.error)
    /\ storeCalls' = Append(storeCalls,
                            [op |-> "match_documents", query_embedding |-> varEmbedding,
                             match_threshold |-> matchThreshold,
                             match_count |-> variationMatchCount,
                             error |-> answer.error, rows |-> answer.data.rows,
                             strategy |-> "variation"])
    /\ LET qa == pushVariation(qaResults, answer)
       IN  /\ qaResults' = qa
           /\ SearchVariations(semanticResults, keywordResults, qa, vi + 1)
    /\ UNCHANGED << documents, calls, embedCalls, documentsBefore, addVars, besideRag >>
    /\ UNCHANGED << query, limit, queryEmbedding, semanticResults, keywordResults,
                    varEmbedding >>

SearchNext ==
    \/ \E q \in Queries, n \in Limits : SearchDocuments(q, n)
    \/ /\ sPc = "embed"
       /\ \E response \in ProviderResponses : SearchEmbed(response)
    \/ /\ sPc = "semantic"
       /\ \E answer \in matchDocuments(documents, matchThreshold, limit,
                                       MaxRaw - neighbourHits) : SearchSemantic(answer)
    \/ /\ sPc = "keyword"
       /\ \E answer \in selectIlike(documents, extractKeyTerms(query), limit) :
              SearchKeyword(answer)
    \/ /\ sPc = "varEmbed"
       /\ \E response \in ProviderResponses : SearchVarEmbed(response)
    \/ /\ sPc = "varSearch"
       /\ \E answer \in matchDocuments(documents, matchThreshold, variationMatchCount,
                                       MaxRaw - neighbourHits) : SearchVarSearch(answer)

AddNext ==
    \/ \E text \in Documents, meta \in Metadatas : AddDocument(text, meta)
    \/ /\ aPc = "embed"
       /\ \E response \in ProviderResponses : AddEmbed(response)
    \/ /\ aPc = "insert"
       /\ \E err \in InsertResponses : AddInsert(err)
    \/ /\ aPc = "retry"
       /\ \E err \in InsertResponses : AddRetry(err)

Next ==
    AddNext \/ SearchNext

Spec ==
    Init /\ [][Next]_vars

(***************************************************************************)
(* The text functions on their own (lines 200-254).  The query is typed in *)
(* pieces, so that it can hold more than five key terms, repeated terms,   *)
(* upper case, punctuation, stop words, short words and runs of white      *)
(* space, and words of every topic.                                        *)
(***************************************************************************)
\* pieces typed into one query
MaxPieces ==
    3

QueryPieces ==
    { <<"W","h","a","t"," ","i","s"," ","t","h","e"," ">>,
      <<"p","r","i","c","e"," ","o","f"," ","t","h","e"," ","i","t","e","m","?"," ">>,
      <<"P","r","i","c","e"," ","I","T","E","M"," "," ","c","o","s","t"," ">>,
      <<"p","a","y"," ","b","a","n","k"," ","g","c","a","s","h"," ">>,
      <<"m","a","g","k","a","n","o"," ","a","n","g"," ","s","h","i","p","p","i","n","g","?"," ">>,
      <<"h","i"," ","p","o","\n">>,
      <<"i","t","'","s"," ","5","0","_","p","e","s","o","s"," ">> }

\* the caller types one more piece of the query
TypeQuery(piece) ==
    /\ pieces < MaxPieces
    /\ typed' = typed \o piece
    /\ pieces' = pieces + 1
    /\ keyTerms' = << >>
    /\ variations' = << >>
    /\ applied' = { }
    /\ UNCHANGED besideText

\* extractKeyTerms(typed)
ExtractKeyTerms ==
    /\ "extractKeyTerms" \notin applied
    /\ keyTerms' = extractKeyTerms(typed)
    /\ applied' = applied \union { "extractKeyTerms" }
    /\ UNCHANGED << typed, pieces, variations, besideText >>

\* generateQuestionVariations(typed)
GenerateQuestionVariations ==
    /\ "generateQuestionVariations" \notin applied
    /\ variations' = generateQuestionVariations(typed)
    /\ applied' = applied \union { "generateQuestionVariations" }
    /\ UNCHANGED << typed, pieces, keyTerms, besideText >>

TextNext ==
    \/ \E piece \in QueryPieces : TypeQuery(piece)
    \/ ExtractKeyTerms
    \/ GenerateQuestionVariations

\* the store plays no part here: it starts empty
TextStart ==
    Init /\ documents = << >>

SpecText ==
    TextStart /\ [][TextNext]_vars

(***************************************************************************)
(* Searches that run at the same time (lines 99-195), against a store that *)
(* does not change and an embedder and a store whose answer depends on the *)
(* request alone.  A step is the code of one call between two awaits; the  *)
(* steps of the calls interleave in any order.                             *)
(***************************************************************************)
\* the sets of texts the provider may be unable to embed
BrokenTexts ==
    { { },
      { <<"D","o"," ","y","o","u"," ","d","e","l","i","v","e","r","?">> },
      { <<"h","e","l","l","o">> } }

\* the provider's answer to a request: the same for the same text
steadyProvider(text) ==
    IF text \in broken
    THEN [ok |-> FALSE, status |-> 500, body |-> "error text"]
    ELSE [ok |-> TRUE,  status |-> 200, body |-> "embedding"]

\* the similarity the store computes between an embedding and a chunk: the
\* same for the same pair
steadySimilarity(embedding, text) ==
    IF embedding.undefined THEN 20
    ELSE IF \E i \in 1..Len(extractKeyTerms(embedding.text)) :
                ilike(text, extractKeyTerms(embedding.text)[i]) THEN 90
    ELSE IF Len(embedding.text) > Len(text) THEN 50
    ELSE 20

\* match_documents on the unchanging table: the rows above the threshold, the
\* most similar first, cut to match_count; an error for a negative match_count
steadyMatch(table, embedding, match_threshold, match_count) ==
    LET hits  == SubSeq([i \in 1..Len(table) |->
                            [id |-> table[i].id, content |-> table[i].content,
                             similarity |-> << steadySimilarity(embedding, table[i].content) >>]],
                        1, Len(table))
        above == SelectSeq(hits, LAMBDA hit : hit.similarity[1] > match_threshold)
    IN  IF match_count < 0
        THEN [error |-> TRUE, data |-> nullData]
        ELSE [error |-> FALSE,
              data |-> [null |-> FALSE, rows |-> slice0(sortBySimilarity(above), match_count)]]

\* the keyword query on the unchanging table: the matching rows in table
\* order, cut to n; an error for a negative n
steadyIlike(table, terms, n) ==
    LET rows     == SubSeq([i \in 1..Len(table) |->
                               [id |-> table[i].id, content |-> table[i].content]],
                           1, Len(table))
        matching == SelectSeq(rows, LAMBDA row :
                                  \E i \in 1..Len(terms) : ilike(row.content, terms[i]))
    IN  IF n < 0
        THEN [error |-> TRUE, data |-> nullData]
        ELSE [error |-> FALSE, data |-> [null |-> FALSE, rows |-> slice0(matching, n)]]

\* lines 99-104: the locals of a call up to its first await
startLocals(q, n) ==
    [idleLocals EXCEPT !.sPc = "embed", !.query = q, !.limit = n]

\* lines 191-194
caught(l) ==
    [l EXCEPT !.found = "returned", !.result = << >>, !.sPc = "done"]

\* lines 142-190: the head of the loop over the variations, and past its end
\* the merge and the return
variationsFrom(l, i) ==
    IF i > Len(questionVariations(l.query))
    THEN [l EXCEPT !.found = "returned",
                   !.result = joinContents(uniqueResults(l.semanticResults, l.keywordResults,
                                                         l.qaResults, l.limit)),
                   !.sPc = "done"]
    ELSE [l EXCEPT !.sPc = "varEmbed", !.vi = i]

\* the locals of a call after the await it is waiting at has answered
resume(l, table) ==
    CASE l.sPc = "embed" ->
             LET got == getEmbedding(l.query, searchInputType, steadyProvider(l.query))
             IN  IF got.threw THEN caught(l)
                 ELSE [l EXCEPT !.queryEmbedding = got.value, !.sPc = "semantic"]
      [] l.sPc = "semantic" ->
             LET answer == steadyMatch(table, l.queryEmbedding, matchThreshold, l.limit)
                 next   == [l EXCEPT !.semanticResults = answer.data]
             IN  IF Len(extractKeyTerms(l.query)) > 0
                 THEN [next EXCEPT !.sPc = "keyword"]
                 ELSE variationsFrom(next, 1)
      [] l.sPc = "keyword" ->
             LET answer == steadyIlike(table, extractKeyTerms(l.query), l.limit)
             IN  variationsFrom([l EXCEPT !.keywordResults = keywordOf(answer)], 1)
      [] l.sPc = "varEmbed" ->
             LET variation == questionVariations(l.query)[l.vi]
                 got       == getEmbedding(variation, searchInputType, steadyProvider(variation))
             IN  IF got.threw THEN caught(l)
                 ELSE [l EXCEPT !.varEmbedding = got.value, !.sPc = "varSearch"]
      [] l.sPc = "varSearch" ->
             LET answer == steadyMatch(table, l.varEmbedding, matchThreshold,
                                       variationMatchCount)
             IN  variationsFrom([l EXCEPT !.qaResults = pushVariation(l.qaResults, answer)],
                                l.vi + 1)
      [] OTHER -> l

\* a faulty variant of writeLocals: qaResults is one array of the module, which
\* every call pushes to and merges from
writeLocalsSharedQa(all, p, l) ==
    [o \in DOMAIN all |-> IF o = p THEN l ELSE [all[o] EXCEPT !.qaResults = l.qaResults]]

\* a step of call p assigns the locals of call p and nothing else
writeLocals(all, p, l) ==
    [all EXCEPT ![p] = l]

\* call p of searchDocuments(q, n) begins
ConcSearchDocuments(p, q, n) ==
    /\ running[p].sPc = "idle"
    /\ running' = writeLocals(running, p, startLocals(q, n))
    /\ UNCHANGED << broken, besideConc >>

\* call p goes on from the await it was waiting at
ConcResume(p) ==
    /\ running[p].sPc \notin { "idle", "done" }
    /\ running' = writeLocals(running, p, resume(running[p], documents))
    /\ UNCHANGED << broken, besideConc >>

ConcNext ==
    \/ \E p \in 1..MaxSearches, q \in Queries, n \in Limits : ConcSearchDocuments(p, q, n)
    \/ \E p \in 1..MaxSearches : ConcResume(p)

\* the store holds its rows from the start and the texts the provider cannot
\* embed are fixed from the start; no call has begun
ConcurrentInit ==
    /\ RagInit
    /\ documents # << >>
    /\ TextInit
    /\ GuestInit
    /\ running = [p \in 1..MaxSearches |-> idleLocals]
    /\ broken \in BrokenTexts

SpecConcurrent ==
    ConcurrentInit /\ [][ConcNext]_vars

(***************************************************************************)
(* Guest session management (guest session functions, lines 9-49).         *)
(***************************************************************************)
GUEST_SESSION_KEY ==
    "guest_session_id"

guestPrefix ==
    <<"g","u","e","s","t","_">>

\* the values crypto.randomUUID() can return
UUIDs ==
    { <<"a","1">>, <<"b","2">>, <<"c","3">> }

\* session ids handed to isGuestSession: guest ids, a Messenger PSID, and
\* strings that only resemble a guest id
SessionIds ==
    { guestPrefix \o uuid : uuid \in UUIDs }
    \union { <<"2","4","6","0","1">>, <<"g","u","e","s","t">>, <<"x","g","u","e","s","t","_","a","1">>, << >> }

\* String.prototype.startsWith
startsWith(str, prefix) ==
    Len(str) >= Len(prefix) /\ SubSeq(str, 1, Len(prefix)) = prefix

\* lines 47-49
isGuestSession(sessionId) ==
    startsWith(sessionId, guestPrefix)

\* a faulty variant of getOrCreate: an id is created whether one is stored or not
getOrCreateAlwaysNew(stored, uuid) ==
    [sessionId |-> guestPrefix \o uuid, stored |-> << guestPrefix \o uuid >>]

\* lines 18-23: the id returned and the item stored afterwards; the stored
\* item is kept unless it is null or the empty string
getOrCreate(stored, uuid) ==
    IF stored = nullItem \/ stored = << << >> >>
    THEN [sessionId |-> guestPrefix \o uuid, stored |-> << guestPrefix \o uuid >>]
    ELSE [sessionId |-> stored[1], stored |-> stored]

\* lines 15-24
GetOrCreateGuestSessionId(uuid) ==
    /\ lastCall' = "getOrCreateGuestSessionId"
    /\ storedBefore' = localStorage
    /\ IF ~window
       THEN /\ returned' = [type |-> "string", value |-> << >>]
            /\ UNCHANGED << localStorage, created, issued, cleared >>
       ELSE LET got == getOrCreate(localStorage, uuid)
            IN  /\ returned' = [type |-> "string", value |-> got.sessionId]
                /\ localStorage' = got.stored
                /\ created' = IF got.stored # localStorage
                              THEN created \union { got.sessionId }
                              ELSE created
                /\ issued' = issued \union { got.sessionId }
                /\ cleared' = FALSE
    /\ UNCHANGED << window, besideGuest >>

\* lines 30-33
GetGuestSessionId ==
    /\ lastCall' = "getGuestSessionId"
    /\ storedBefore' = localStorage
    /\ returned' = IF ~window \/ localStorage = nullItem
                   THEN [type |-> "null", value |-> << >>]
                   ELSE [type |-> "string", value |-> localStorage[1]]
    /\ UNCHANGED << window, localStorage, created, issued, cleared, besideGuest >>

\* lines 38-42
ClearGuestSession ==
    /\ lastCall' = "clearGuestSession"
    /\ storedBefore' = localStorage
    /\ returned' = [type |-> "undefined", value |-> << >>]
    /\ IF window
       THEN /\ localStorage' = nullItem
            /\ issued' = { }
            /\ cleared' = TRUE
       ELSE UNCHANGED << localStorage, issued, cleared >>
    /\ UNCHANGED << window, created, besideGuest >>

\* lines 47-49, called with a session id
IsGuestSession(sessionId) ==
    /\ lastCall' = "isGuestSession"
    /\ storedBefore' = localStorage
    /\ returned' = [type |-> IF isGuestSession(sessionId) THEN "true" ELSE "false",
                    value |-> sessionId]
    /\ UNCHANGED << window, localStorage, created, issued, cleared, besideGuest >>

GuestNext ==
    \/ \E uuid \in UUIDs : GetOrCreateGuestSessionId(uuid)
    \/ GetGuestSessionId
    \/ ClearGuestSession
    \/ \E sessionId \in SessionIds : IsGuestSession(sessionId)

\* in a browser or on the server, nothing stored, no call made
GuestStart ==
    /\ RagInit
    /\ documents = << >>
    /\ TextInit
    /\ ConcInit
    /\ window \in BOOLEAN
    /\ GuestIdle

SpecGuest ==
    GuestStart /\ [][GuestNext]_vars

(***************************************************************************)
(* What a finished call shows of its history.                              *)
(***************************************************************************)
SearchDone ==
    sPc = "done"

\* some getEmbedding call of the current call threw
EmbeddingThrew ==
    \E i \in 1..Len(embedCalls) : embedCalls[i].threw

\* some store call of the current call returned an error
StoreFailed ==
    \E i \in 1..Len(storeCalls) : storeCalls[i].error

\* the rows the store calls of one strategy returned, failed calls giving none
RECURSIVE rowsReturned(_, _)
rowsReturned(log, strategy) ==
    IF log = << >> THEN << >>
    ELSE (IF Head(log).strategy = strategy /\ ~Head(log).error
          THEN Head(log).rows ELSE << >>)
         \o rowsReturned(Tail(log), strategy)

strategiesCalled ==
    SubSeq([i \in 1..Len(storeCalls) |-> storeCalls[i].strategy], 1, Len(storeCalls))

\* the store calls a search of the query makes when nothing stops it
strategiesDue(q) ==
    << "semantic" >>
    \o (IF Len(extractKeyTerms(q)) > 0 THEN << "keyword" >> ELSE << >>)
    \o SubSeq([i \in 1..Len(questionVariations(q)) |-> "variation"],
              1, Len(questionVariations(q)))

\* the string the hits the store returned merge to
mergedFromStore ==
    joinContents(uniqueResults([null |-> FALSE, rows |-> rowsReturned(storeCalls, "semantic")],
                               keywordHits(rowsReturned(storeCalls, "keyword")),
                               tagged(rowsReturned(storeCalls, "variation"), "variation"),
                               limit))

(***************************************************************************)
(* Claims about searchDocuments.                                           *)
(***************************************************************************)
\* C1: an embedding failure is isolated to its strategy: when a getEmbedding
\* call of a search fails, the other strategies still run (the keyword search
\* is still sent for a query with key terms) and the hits the store returned
\* are still merged and returned.
C1_EmbeddingFailureIsolated ==
    (SearchDone /\ EmbeddingThrew /\ limit >= 1) =>
        /\ Len(extractKeyTerms(query)) > 0 =>
               \E i \in 1..Len(storeCalls) : storeCalls[i].strategy = "keyword"
        /\ result = mergedFromStore

\* C2: a store error makes only the failing call contribute no hits: when no
\* getEmbedding call throws, every store call the query is due is made, in
\* order, whatever the earlier ones answered, and the string returned is the
\* merge of the rows of all the calls that did not fail.
C2_StoreErrorIsolated ==
    (SearchDone /\ ~EmbeddingThrew) =>
        /\ strategiesCalled = strategiesDue(query)
        /\ result = mergedFromStore

\* C2 happens: a store call failed, another returned rows, and they are returned
C2_Witness ==
    /\ SearchDone
    /\ ~EmbeddingThrew
    /\ StoreFailed
    /\ storeCalls[1].error
    /\ Len(storeCalls) = 4
    /\ result # << >>

\* C3: searchDocuments never raises: whatever the provider and the store
\* answer, a finished search has returned a string, and it has returned the
\* empty string when no store call returned a row.
C3_SearchNeverRaises ==
    /\ found # "raised"
    /\ SearchDone =>
           /\ found = "returned"
           /\ (\A i \in 1..Len(storeCalls) : storeCalls[i].rows = << >>) => result = << >>

\* C3 happens: a search in which getEmbedding threw has returned
C3_Witness ==
    /\ SearchDone
    /\ EmbeddingThrew
    /\ faults = MaxFaults
    /\ found = "returned"
    /\ result = << >>

\* the merged hits of a search that reached the merge, and what is kept of them
merged ==
    allResults(semanticResults, keywordResults, qaResults)

deduplicated ==
    seenContent(merged, << >>)

ranked ==
    uniqueResults(semanticResults, keywordResults, qaResults, limit)

Merged ==
    SearchDone /\ ~EmbeddingThrew

\* the similarity a hit counts with, an absent one as 0
simOf(hit) ==
    IF hit.similarity = << >> THEN 0 ELSE hit.similarity[1]

\* the first position in the merged hits of a hit with this content and the
\* highest similarity any hit with this content has
bestOf(text) ==
    LET same == { i \in 1..Len(merged) : merged[i].content = text }
        best == { i \in same : \A j \in same : simOf(merged[j]) <= simOf(merged[i]) }
    IN  CHOOSE i \in best : \A j \in best : i <= j

\* C4: deduplication keeps, for every content among the merged hits, exactly
\* one hit, and it is the first in merge order of the hits of highest
\* similarity with that content (an absent similarity counting as 0); nothing
\* else is kept.
C4_DedupKeepsBest ==
    Merged =>
        /\ \A i \in 1..Len(merged) :
               /\ Cardinality({ k \in 1..Len(deduplicated) :
                                  deduplicated[k].content = merged[i].content }) = 1
               /\ \E k \in 1..Len(deduplicated) :
                      deduplicated[k] = merged[bestOf(merged[i].content)]
        /\ \A k \in 1..Len(deduplicated) :
               \E i \in 1..Len(merged) : deduplicated[k] = merged[i]

\* C4 happens: a later hit replaces an earlier one of the same content, another
\* id and a lower similarity, and a tie keeps the earlier hit
C4_Witness ==
    /\ Merged
    /\ \E i, j \in 1..Len(merged) :
           /\ i < j
           /\ merged[i].content = merged[j].content
           /\ merged[i].id # merged[j].id
           /\ simOf(merged[i]) < simOf(merged[j])
    /\ \E i, j \in 1..Len(merged) :
           /\ i < j
           /\ merged[i].content = merged[j].content
           /\ simOf(merged[i]) = simOf(merged[j])
           /\ merged[i] # merged[j]

\* C5: for a limit of at least 1, the passages returned are those of the
\* deduplicated hits in non-increasing order of similarity, cut to the limit
\* highest: no deduplicated hit left out has a higher similarity than one
\* that is included.
C5_RankedTopLimit ==
    (Merged /\ limit >= 1) =>
        /\ result = joinContents(ranked)
        /\ Len(ranked) = IF limit < Len(deduplicated) THEN limit ELSE Len(deduplicated)
        /\ \A i, j \in 1..Len(ranked) : i < j => simOf(ranked[i]) >= simOf(ranked[j])
        /\ \A i \in 1..Len(ranked) : \E k \in 1..Len(deduplicated) : ranked[i] = deduplicated[k]
        /\ \A k \in 1..Len(deduplicated) :
               (\A i \in 1..Len(ranked) : ranked[i] # deduplicated[k]) =>
                   \A i \in 1..Len(ranked) : simOf(deduplicated[k]) <= simOf(ranked[i])

\* C5 happens: more contents than the limit, the best of them not the first met
C5_Witness ==
    /\ Merged
    /\ limit = 1
    /\ Len(deduplicated) >= 2
    /\ simOf(deduplicated[1]) < simOf(deduplicated[2])
    /\ result = deduplicated[2].content

\* the contents of the chunks in the store
storedContents ==
    { documents[i].content : i \in 1..Len(documents) }

\* the sequences of one to n pairwise distinct elements of a set
RECURSIVE distinctLists(_, _)
distinctLists(S, n) ==
    IF n <= 0 \/ S = { } THEN { }
    ELSE UNION { { << x >> } \union { << x >> \o rest : rest \in distinctLists(S \ { x }, n - 1) } :
                 x \in S }

\* C6: for a limit of at least 1, whatever the provider and the store answer,
\* the string returned is empty or is the contents of at most limit pairwise
\* distinct chunks joined by a blank line.
C6_AtMostLimitDistinct ==
    (SearchDone /\ limit >= 1) =>
        \/ result = << >>
        \/ \E texts \in distinctLists(storedContents, limit) : result = join(texts, blankLine)

\* C6 happens: more raw hits and more distinct contents than the limit
C6_Witness ==
    /\ Merged
    /\ limit = 1
    /\ Len(merged) >= 3
    /\ Len(deduplicated) >= 2
    /\ result # << >>

(***************************************************************************)
(* Claims about addDocument.                                               *)
(***************************************************************************)
AddRunning ==
    aPc \in { "embed", "insert", "retry" }

AddDone ==
    aPc = "done"

\* getEmbedding returned for chunk i
embedded(i) ==
    \E k \in 1..Len(embedCalls) : embedCalls[k].chunk = i /\ ~embedCalls[k].threw

\* an insert of chunk i succeeded
stored(i) ==
    \E k \in 1..Len(storeCalls) : storeCalls[k].chunk = i /\ storeCalls[k].error.null

\* the error of store call k mentions category_id, and call k is not a retry
fallbackDue(k) ==
    /\ ~storeCalls[k].retry
    /\ ~storeCalls[k].error.null
    /\ storeCalls[k].error.message # << >>
    /\ includes(storeCalls[k].error.message[1], categoryIdText)

\* an error no fallback recovers from has occurred
Unrecoverable ==
    \/ EmbeddingThrew
    \/ \E k \in 1..Len(storeCalls) : ~storeCalls[k].error.null /\ ~fallbackDue(k)

\* the rows the current call added to the table
addedRows ==
    SubSeq(documents, Len(documentsBefore) + 1, Len(documents))

C8_RetryOnlyOnSchemaError ==
    AddDone =>
        \A k \in 1..Len(storeCalls) :
            /\ storeCalls[k].retry =>
                   /\ k > 1
                   /\ ~storeCalls[k - 1].retry
                   /\ storeCalls[k - 1].chunk = storeCalls[k].chunk
                   /\ storeCalls[k].row = [storeCalls[k - 1].row EXCEPT !.category_id = << >>]
                   /\ storeCalls[k - 1].row.category_id # << >> =>
                          storeCalls[k - 1].error.message = << schemaMessage >>
            /\ (~storeCalls[k].retry /\ storeCalls[k].error.message = << schemaMessage >>) =>
                   /\ k < Len(storeCalls)
                   /\ storeCalls[k + 1].retry

searchTexts ==
    { query } \union { questionVariations(query)[i] : i \in 1..Len(questionVariations(query)) }

\* C10: embedding modes are never mixed: every embedding stored in the table or
\* passed to an insert is the passage-mode embedding of the row's content, and
\* every embedding passed to a nearest-neighbour search is the query-mode
\* embedding of the query or of one of its variations.
C10_ModesNeverMixed ==
    /\ \A i \in 1..Len(documents) :
           \/ documents[i].embedding.undefined
           \/ documents[i].embedding = [undefined |-> FALSE, text |-> documents[i].content,
                                        mode |-> "passage"]
    /\ (AddRunning \/ AddDone) =>
           /\ \A k \in 1..Len(embedCalls) : embedCalls[k].inputType = "passage"
           /\ \A k \in 1..Len(storeCalls) :
                  \/ storeCalls[k].row.embedding.undefined
                  \/ storeCalls[k].row.embedding =
                         [undefined |-> FALSE, text |-> storeCalls[k].row.content,
                          mode |-> "passage"]
    /\ sPc # "idle" =>
           /\ \A k \in 1..Len(embedCalls) : embedCalls[k].inputType = "query"
           /\ \A k \in 1..Len(storeCalls) :
                  storeCalls[k].op = "match_documents" =>
                      \/ storeCalls[k].query_embedding.undefined
                      \/ /\ storeCalls[k].query_embedding.mode = "query"
                         /\ \/ storeCalls[k].query_embedding.text = query
                            \/ storeCalls[k].query_embedding.text \in searchTexts

\* C10 happens: a search over stored passage embeddings has sent the query and
\* two variations to the nearest-neighbour search
C10_Witness ==
    /\ SearchDone
    /\ documents # << >>
    /\ Len(embedCalls) = 3
    /\ Cardinality({ k \in 1..Len(storeCalls) :
                       /\ storeCalls[k].op = "match_documents"
                       /\ ~storeCalls[k].query_embedding.undefined }) = 3

(***************************************************************************)
(* Claims about the calls a search makes.                                  *)
(***************************************************************************)
\* the nearest-neighbour calls of the current call
neighbourCalls ==
    { k \in 1..Len(storeCalls) : storeCalls[k].op = "match_documents" }

\* C11: a search embeds the query and then at most the first 2 variations the
\* expander produced for it, in the expander's order: it makes at most 3
\* embedding calls and at most 3 nearest-neighbour calls, however many
\* variations the query has.
C11_AtMostTwoVariations ==
    sPc # "idle" =>
        /\ Len(embedCalls) <= 3
        /\ Cardinality(neighbourCalls) <= 3
        /\ \A k \in 1..Len(embedCalls) :
               /\ k = 1 => embedCalls[k].text = query
               /\ k > 1 => /\ k - 1 <= Len(generateQuestionVariations(query))
                           /\ embedCalls[k].text = generateQuestionVariations(query)[k - 1]
        /\ (SearchDone /\ ~EmbeddingThrew) =>
               Len(embedCalls) = 1 + (IF Len(generateQuestionVariations(query)) < 2
                                      THEN Len(generateQuestionVariations(query)) ELSE 2)

\* C11 happens: a query of two topics and five variations has been searched
C11_Witness ==
    /\ SearchDone
    /\ ~EmbeddingThrew
    /\ Len(generateQuestionVariations(query)) = 5
    /\ Len(embedCalls) = 3
    /\ Cardinality(neighbourCalls) = 3

\* C12: every nearest-neighbour call passes the threshold 0.30; the call for
\* the query passes the caller's limit as the count and the call for a
\* variation passes 3; so no semantic or variation hit that carries a
\* similarity carries one below 0.30.
C12_ThresholdPassedThrough ==
    /\ \A k \in neighbourCalls :
           /\ storeCalls[k].match_threshold = 30
           /\ storeCalls[k].strategy \in { "semantic", "variation" }
           /\ storeCalls[k].strategy = "semantic" =>
                  k = 1 /\ storeCalls[k].match_count = limit
           /\ storeCalls[k].strategy = "variation" => storeCalls[k].match_count = 3
           /\ \A i \in 1..Len(storeCalls[k].rows) :
                  storeCalls[k].rows[i].similarity # absent =>
                      storeCalls[k].rows[i].similarity[1] >= 30
    /\ \A i \in 1..Len(orEmpty(semanticResults)) :
           orEmpty(semanticResults)[i].similarity # absent =>
               orEmpty(semanticResults)[i].similarity[1] >= 30
    /\ \A i \in 1..Len(qaResults) :
           qaResults[i].similarity # absent => qaResults[i].similarity[1] >= 30

\* C12 happens: the store holds rows, and the semantic search and the search of
\* a variation have both returned hits that carry a similarity
C12_Witness ==
    /\ SearchDone
    /\ limit = 2
    /\ Len(orEmpty(semanticResults)) >= 1
    /\ orEmpty(semanticResults)[1].similarity # absent
    /\ Len(qaResults) >= 1
    /\ qaResults[1].similarity # absent

(***************************************************************************)
(* Claims about the text functions.                                        *)
(***************************************************************************)
\* the tokens of the typed query that survive the filter, in order: lower
\* case, punctuation removed, longer than 2 characters, no stop word
survivors ==
    SelectSeq(splitWhitespace(stripPunctuation(toLowerCase(typed))),
              LAMBDA token : Len(token) > 2 /\ token \notin stopWords)

\* the distinct survivors met before position k
distinctBefore(k) ==
    { survivors[j] : j \in 1..(k - 1) }

\* the position at which a survivor first occurs
firstAt(token) ==
    CHOOSE k \in 1..Len(survivors) :
        survivors[k] = token /\ token \notin distinctBefore(k)

\* C13: extractKeyTerms returns at most 5 terms, without duplicates, each lower
\* case, longer than 2 characters and no stop word; the i-th term is the i-th
\* distinct surviving token of the query, and there are 5 terms whenever the
\* query has 5 or more distinct surviving tokens (the cut follows the
\* deduplication).
C13_FirstFiveDistinctTerms ==
    "extractKeyTerms" \in applied =>
        /\ Len(keyTerms) <= 5
        /\ \A i, j \in 1..Len(keyTerms) : i # j => keyTerms[i] # keyTerms[j]
        /\ \A i \in 1..Len(keyTerms) :
               /\ toLowerCase(keyTerms[i]) = keyTerms[i]
               /\ Len(keyTerms[i]) > 2
               /\ keyTerms[i] \notin stopWords
               /\ \E k \in 1..Len(survivors) : survivors[k] = keyTerms[i]
               /\ Cardinality(distinctBefore(firstAt(keyTerms[i]))) = i - 1
        /\ Len(keyTerms) = IF Cardinality(distinctBefore(Len(survivors) + 1)) < 5
                           THEN Cardinality(distinctBefore(Len(survivors) + 1))
                           ELSE 5

\* C13 happens: the query has more than 5 distinct surviving tokens, one of
\* them repeated among its first 5 surviving tokens, and 5 terms are returned
C13_Witness ==
    /\ "extractKeyTerms" \in applied
    /\ Cardinality(distinctBefore(Len(survivors) + 1)) > 5
    /\ Cardinality(distinctBefore(6)) < 5
    /\ typed # toLowerCase(typed)
    /\ Len(keyTerms) = 5

\* the four topics in the order they are checked
topicTriggers ==
    << priceTriggers, productTriggers, deliveryTriggers, paymentTriggers >>

topicPhrases ==
    << priceVariations, productVariations, deliveryVariations, paymentVariations >>

\* topic k is asked about: one of its triggers occurs in the lower-cased query
asked(k) ==
    \E trigger \in topicTriggers[k] : includes(toLowerCase(typed), trigger)

\* the number of phrases of the topics asked about that are checked before topic k
RECURSIVE phrasesBefore(_)
phrasesBefore(k) ==
    IF k <= 1 THEN 0
    ELSE phrasesBefore(k - 1) + (IF asked(k - 1) THEN Len(topicPhrases[k - 1]) ELSE 0)

\* C14: generateQuestionVariations returns the phrases of exactly the topics
\* asked about, topic after topic in the order pricing, product, delivery,
\* payment, each topic's phrases in their fixed order; a query containing
\* "magkano" gets "Magkano?", and no more than the pricing phrases when it
\* asks about no other topic; a query asking about no topic gets none.
C14_VariationsByTopic ==
    "generateQuestionVariations" \in applied =>
        /\ Len(variations) = phrasesBefore(5)
        /\ \A k \in 1..4 :
               asked(k) =>
                   SubSeq(variations, phrasesBefore(k) + 1,
                          phrasesBefore(k) + Len(topicPhrases[k])) = topicPhrases[k]
        /\ includes(toLowerCase(typed), <<"m","a","g","k","a","n","o">>) =>
               /\ \E i \in 1..Len(variations) : variations[i] = <<"M","a","g","k","a","n","o","?">>
               /\ (\A k \in 2..4 : ~asked(k)) =>
                      /\ Len(variations) <= 3
                      /\ \A i \in 1..Len(variations) : variations[i] = priceVariations[i]
        /\ (\A k \in 1..4 : ~asked(k)) => variations = << >>

\* C14 happens: a query typed partly in upper case asks about pricing by
\* "magkano", about products and about delivery, and not about payment
C14_Witness ==
    /\ "generateQuestionVariations" \in applied
    /\ includes(typed, <<"m","a","g","k","a","n","o">>)
    /\ typed # toLowerCase(typed)
    /\ asked(2)
    /\ asked(3)
    /\ ~asked(4)
    /\ Len(variations) = 8

(***************************************************************************)
(* Claims about the keyword strategy.                                      *)
(***************************************************************************)
\* the store calls of the keyword search that returned rows without an error
keywordCalls ==
    { k \in 1..Len(storeCalls) : storeCalls[k].strategy = "keyword" /\ ~storeCalls[k].error }

\* no nearest-neighbour search of the current call returned a hit
NoNeighbourHit ==
    \A k \in neighbourCalls : storeCalls[k].rows = << >>

\* the chunk contains a key term of the query, whatever the case
hasKeyTerm(text, q) ==
    \E i \in 1..Len(extractKeyTerms(q)) : ilike(text, extractKeyTerms(q)[i])

\* C15: for a limit of at least 1, when the keyword search succeeded and
\* returned a stored chunk that contains a key term of the query, the search
\* returns a non-empty context that contains that chunk, even when no
\* nearest-neighbour search returned a hit.
C15_KeywordHitReturned ==
    (SearchDone /\ limit >= 1 /\ NoNeighbourHit) =>
        \A k \in keywordCalls :
            \A i \in 1..Len(storeCalls[k].rows) :
                hasKeyTerm(storeCalls[k].rows[i].content, query) =>
                    /\ result # << >>
                    /\ includes(result, storeCalls[k].rows[i].content)

\* the keyword search has been sent
KeywordIssued ==
    sPc = "keyword" \/ \E k \in 1..Len(storeCalls) : storeCalls[k].strategy = "keyword"

\* the search has passed line 118, where extractKeyTerms returns
KeyTermsReturned ==
    sPc \in { "keyword", "varEmbed", "varSearch" } \/ (sPc = "done" /\ storeCalls # << >>)

\* the content was found by the keyword search and by no other
keywordOnly(text) ==
    /\ \E i \in 1..Len(keywordResults) : keywordResults[i].content = text
    /\ \A i \in 1..Len(orEmpty(semanticResults)) : orEmpty(semanticResults)[i].content # text
    /\ \A i \in 1..Len(qaResults) : qaResults[i].content # text

\* C20: the keyword search is sent exactly when extractKeyTerms has returned
\* at least one term, once and with those terms; every hit it gives has
\* similarity 0.5 and matchType keyword; and in the order returned a content
\* found by the keyword search alone comes after every content kept with a
\* similarity above 0.5 and before every content kept with one below 0.5.
C20_KeywordHitsRankAtHalf ==
    sPc # "idle" =>
        /\ KeywordIssued <=> (KeyTermsReturned /\ Len(extractKeyTerms(query)) > 0)
        /\ Cardinality({ k \in 1..Len(storeCalls) : storeCalls[k].strategy = "keyword" }) <= 1
        /\ \A k \in 1..Len(storeCalls) :
               storeCalls[k].strategy = "keyword" =>
                   /\ storeCalls[k].terms = extractKeyTerms(query)
                   /\ Len(keywordResults) = IF storeCalls[k].error THEN 0
                                            ELSE Len(storeCalls[k].rows)
        /\ \A i \in 1..Len(keywordResults) :
               /\ keywordResults[i].similarity = << 50 >>
               /\ keywordResults[i].matchType = "keyword"
        /\ Merged =>
               /\ result = joinContents(ranked)
               /\ \A i, j \in 1..Len(ranked) :
                      keywordOnly(ranked[i].content) =>
                          /\ simOf(ranked[i]) = 50
                          /\ simOf(ranked[j]) > 50 => j < i
                          /\ simOf(ranked[j]) < 50 => i < j

\* C20 happens: a content found by the keyword search alone is returned ahead
\* of a content the semantic search found first but with a lower similarity
C20_Witness ==
    /\ Merged
    /\ limit = 2
    /\ Len(ranked) = 2
    /\ keywordOnly(ranked[1].content)
    /\ simOf(ranked[2]) < 50
    /\ merged[1].matchType = "semantic"
    /\ merged[1].content = ranked[2].content
    /\ result = ranked[1].content \o blankLine \o ranked[2].content

(***************************************************************************)
(* Claims about the arguments and the errors.                              *)
(***************************************************************************)
\* C16: a search called with a limit of zero or less raises; no other search
\* raises; and a search called with such a limit returns no passage.
C16_InvalidLimitRaises ==
    /\ (SearchDone /\ limit < 1) => found = "raised"
    /\ found = "raised" => limit < 1
    /\ (SearchDone /\ limit < 1) => result = << >>

\* the faulty answers the current call received from the store
storeErrors ==
    IF sPc # "idle"
    THEN { k \in 1..Len(storeCalls) : storeCalls[k].error }
    ELSE { k \in 1..Len(storeCalls) : ~storeCalls[k].error.null }

\* the getEmbedding calls of the current call that the provider answered, and
\* those it answered with a fault
answeredCalls ==
    { k \in 1..Len(embedCalls) : embedCalls[k].response.body # "fetch rejected" }

\* the response has a non-success status or lacks data[0].embedding
Unusable(response) ==
    ~response.ok \/ response.body \in { "no data", "no embedding" }

\* C17: an invocation of getEmbedding makes one request and does not retry:
\* every faulty response ends the invocation that received it; and when the
\* response has a non-success status or lacks data[0].embedding, the
\* invocation throws an error that carries the status and the text of the
\* response, and returns no vector.
C17_EmbeddingErrorCarriesStatus ==
    /\ faults = Cardinality(storeErrors)
                + Cardinality({ k \in 1..Len(embedCalls) : ProviderFault(embedCalls[k].response) })
    /\ \A k \in answeredCalls :
           Unusable(embedCalls[k].response) =>
               /\ embedCalls[k].threw
               /\ embedCalls[k].error.status = << embedCalls[k].response.status >>
               /\ embedCalls[k].error.text = << embedCalls[k].response.body >>

(***************************************************************************)
(* Claims about searches that run at the same time.                        *)
(***************************************************************************)
\* the locals of a call that runs on its own, from l to its return
RECURSIVE runAlone(_)
runAlone(l) ==
    IF l.sPc = "done" THEN l ELSE runAlone(resume(l, documents))

\* C18: concurrent searches share no state: whatever the interleaving of their
\* steps, a call that has returned has returned the string the same call
\* returns when it runs alone against the same store and provider, and the
\* calls that have not begun are untouched.
C18_ConcurrentSearchesIndependent ==
    \A p \in 1..MaxSearches :
        /\ running[p].sPc = "idle" => running[p] = idleLocals
        /\ running[p].sPc = "done" =>
               /\ running[p].found = "returned"
               /\ running[p].result =
                      runAlone(startLocals(running[p].query, running[p].limit)).result

\* C18 happens: two calls for different queries, one of them cut short by the
\* provider, have both returned, and the other has returned passages found by
\* its variations
C18_Witness ==
    /\ running[1].sPc = "done"
    /\ running[2].sPc = "done"
    /\ running[1].query # running[2].query
    /\ running[1].qaResults # << >>
    /\ running[1].result # << >>
    /\ running[2].query \in broken
    /\ running[2].result = << >>

(***************************************************************************)
(* Claims about the guest session.                                         *)
(***************************************************************************)
\* C19: in a browser, after any sequence of calls: getOrCreateGuestSessionId
\* returns the stored id and leaves it stored when there is one, and creates
\* and stores an id only when there is none, so that its calls return one and
\* the same id as long as clearGuestSession is not called; every id created
\* satisfies isGuestSession; getGuestSessionId stores nothing and returns the
\* stored id, or null when there is none; and from clearGuestSession to the
\* next getOrCreateGuestSessionId nothing is stored and getGuestSessionId
\* returns null.
C19_GuestSessionStable ==
    window =>
        /\ lastCall = "getOrCreateGuestSessionId" =>
               /\ returned.type = "string"
               /\ localStorage = << returned.value >>
               /\ storedBefore # nullItem => localStorage = storedBefore
               /\ storedBefore = nullItem => returned.value \in created
        /\ (localStorage # storedBefore /\ localStorage # nullItem) =>
               lastCall = "getOrCreateGuestSessionId" /\ storedBefore = nullItem
        /\ Cardinality(issued) <= 1
        /\ \A sessionId \in created : isGuestSession(sessionId)
        /\ lastCall = "getGuestSessionId" =>
               /\ localStorage = storedBefore
               /\ returned = IF localStorage = nullItem
                             THEN [type |-> "null", value |-> << >>]
                             ELSE [type |-> "string", value |-> localStorage[1]]
        /\ cleared =>
               /\ localStorage = nullItem
               /\ lastCall = "getGuestSessionId" => returned.type = "null"
        /\ lastCall \in { "getGuestSessionId", "isGuestSession" } => localStorage = storedBefore

\* C19 happens: in a browser a second id was created after a clear, and
\* getOrCreateGuestSessionId has just returned it again without replacing it
C19_Witness ==
    /\ window
    /\ Cardinality(created) = 2
    /\ lastCall = "getOrCreateGuestSessionId"
    /\ storedBefore # nullItem
    /\ localStorage = storedBefore
    /\ returned.value \in created
    /\ issued = { returned.value }

(***************************************************************************)
(* Claims about ties.                                                      *)
(***************************************************************************)
\* the position at which a content first appears among the merged hits
firstAppears(text) ==
    CHOOSE i \in 1..Len(merged) :
        merged[i].content = text /\ \A j \in 1..(i - 1) : merged[j].content # text

\* the place of a strategy in the merge
mergePlace(matchType) ==
    CASE matchType = "semantic" -> 1
      [] matchType = "keyword" -> 2
      [] matchType = "variation" -> 3

\* C21: the merged hits are the semantic ones, then the keyword ones, then the
\* variation ones; passages returned with equal similarity are in the order
\* in which their contents first appeared among the merged hits; and a hit
\* cut by the limit that ties with a returned one first appeared after it.
C21_TiesFollowMergeOrder ==
    Merged =>
        /\ \A i, j \in 1..Len(merged) :
               i < j => mergePlace(merged[i].matchType) <= mergePlace(merged[j].matchType)
        /\ result = joinContents(ranked)
        /\ \A i, j \in 1..Len(ranked) :
               (i < j /\ simOf(ranked[i]) = simOf(ranked[j])) =>
                   firstAppears(ranked[i].content) < firstAppears(ranked[j].content)
        /\ limit >= 1 =>
               \A k \in 1..Len(deduplicated) :
                   (\A i \in 1..Len(ranked) : ranked[i] # deduplicated[k]) =>
                       \A i \in 1..Len(ranked) :
                           simOf(ranked[i]) = simOf(deduplicated[k]) =>
                               firstAppears(ranked[i].content)
                                   < firstAppears(deduplicated[k].content)

\* C21 happens: a semantic hit and a keyword hit of another content tie at
\* 0.5, the limit is 1, and the semantic one is returned
C21_Witness ==
    /\ Merged
    /\ limit = 1
    /\ Len(deduplicated) = 2
    /\ deduplicated[1].matchType = "semantic"
    /\ deduplicated[2].matchType = "keyword"
    /\ simOf(deduplicated[1]) = simOf(deduplicated[2])
    /\ result = deduplicated[1].content

====
